---- MODULE Spec2Model ----
(***************************************************************************)
(* Timer engine of In-DO-Time (lib/timer) on top of the in-memory record   *)
(* store (lib/supabaseDemo + lib/mockData).                                 *)
(*                                                                         *)
(* Timestamps are instants in milliseconds (what Date.getTime() returns    *)
(* and what an ISO string written by Date.toISOString() denotes).  An      *)
(* optional value (null / undefined in the source) is the empty tuple, a   *)
(* present value v is the one-element tuple <<v>>.                          *)
(***************************************************************************)
EXTENDS Integers, Sequences, FiniteSets, TLC

VARIABLES
  entries,   \* MockDataStore.timeEntries: the rows, in Map insertion order
  nextId,    \* number of ids handed out so far by the store
  now,       \* the wall clock, in milliseconds
  result,    \* the value returned by the last call (a TimerResult, or a timer state)
  faults,    \* the kinds of storage call that report an error at present
  calls,     \* the invocations in flight, each with its position in the code
  limits,    \* the bounds of the specification at hand; never changes
  projects,  \* MockDataStore.projects: project id -> its row
  clients    \* MockDataStore.clients: client id -> its row

vars == <<entries, nextId, now, result, faults, calls, limits, projects, clients>>

\* what the engine's operations, run from start to end, leave alone
env == <<faults, calls, limits, projects, clients>>

----------------------------------------------------------------------------
(* Bounds of the model *)

MaxEntries == 2      \* rows ever inserted
MaxClock == 1000     \* the clock stops advancing here (ms)
Step == 500          \* granularity of the clock and of caller-supplied times (ms)

Projects == {"P1", "P2"}
NoteValues == {}     \* note texts stored under Spec: none (callers pass undefined or "")

(* Program constants *)

MsPerSecond == 1000

----------------------------------------------------------------------------
(* Optional values *)

Null == <<>>
Some(v) == <<v>>
Val(o) == o[1]

Times == {t \in 0..MaxClock : t % Step = 0}
Ids == 1..MaxEntries
OptTimes == {Null} \cup {Some(t) : t \in Times}
OptNotes == {Null} \cup {Some(n) : n \in NoteValues}

\* notes as a caller may pass them: undefined, the empty string, or text
NotesInput == {Null, Some("")} \cup {Some(n) : n \in NoteValues}

\* variant: the notes are dropped
NotesOrNull_dropped(notes) == Null

\* `notes || null`: undefined and the empty string both become null
NotesOrNull(notes) == IF notes = Null \/ notes = Some("") THEN Null ELSE notes

\* TimeEntryUpdate restricted to start_time, end_time and notes.  A key that
\* is absent is Null; notes, being nullable, is Some(Null) when set to null.
Updates ==
  [start_time : OptTimes, end_time : OptTimes,
   notes : {Null} \cup {Some(n) : n \in OptNotes}]

\* the inputs the calls are tried with: every combination of times without
\* notes, and every notes value on its own
UpdateInputs == {u \in Updates : u.notes = Null \/ (u.start_time = Null /\ u.end_time = Null)}

----------------------------------------------------------------------------
(* The record store *)

NoRowsFound == "No rows found"

\* The filters of a query (.eq) keep the rows that pass, in store order:
\* SelectSeq.

\* the message of an error the store reports (execute()'s catch branch)
StorageErrorMessage == "storage error"

\* the answer of a storage call of the given kind: what the store computes,
\* or the error it reports
storageCall(kind, answer) ==
  IF kind \in faults
  THEN [data |-> Null, error |-> Some(StorageErrorMessage)]
  ELSE answer

\* MockQueryBuilder.single(): first row, or the PGRST116 "no rows" error
\* variant: .single() as a store that refuses several rows answers it
single_strict(rows) ==
  IF Len(rows) # 1
  THEN [data |-> Null, error |-> Some(NoRowsFound)]
  ELSE [data |-> Some(rows[1]), error |-> Null]

\* MockQueryBuilder.single(): the first row of the answer, an error if none
single(rows) ==
  IF rows = <<>>
  THEN [data |-> Null, error |-> Some(NoRowsFound)]
  ELSE [data |-> Some(rows[1]), error |-> Null]

byId(id) == SelectSeq(entries, LAMBDA e : e.id = id)

\* MockDataStore.updateTimeEntry: merge the supplied fields into the row,
\* which keeps its place in the Map
mergeRow(e, patch) ==
  [k \in DOMAIN e |-> IF k \in DOMAIN patch THEN patch[k] ELSE e[k]]

\* variant: no filter on the id, every row is updated
storeUpdate_everyRow(rows, id, patch) ==
  [i \in 1..Len(rows) |-> mergeRow(rows[i], patch)]

storeUpdate(rows, id, patch) ==
  [i \in 1..Len(rows) |-> IF rows[i].id = id THEN mergeRow(rows[i], patch) ELSE rows[i]]

\* MockDataStore.deleteTimeEntry
storeDelete(rows, id) == SelectSeq(rows, LAMBDA e : e.id # id)

----------------------------------------------------------------------------
(* Pure helpers of the engine *)

\* Math.floor(ms / 1000)
FloorSeconds(ms) == ms \div MsPerSecond

\* variant: rounds the elapsed time up instead of down
calculateElapsedSeconds_ceil(startTime, clock) ==
  -((startTime - clock) \div MsPerSecond)

\* calculateElapsedSeconds(startTime), with the clock reading `clock`
calculateElapsedSeconds(startTime, clock) == FloorSeconds(clock - startTime)

TimerResult(op, success, timeEntry, error) ==
  [op |-> op, success |-> success, timeEntry |-> timeEntry, error |-> error]

----------------------------------------------------------------------------
(* Queries *)

\* variant: the query selects the rows that are not running
getRunningTimerForProject_notRunning(projectId) ==
  LET r == storageCall("select", single(SelectSeq(entries,
                         LAMBDA e : e.project_id = projectId /\ ~e.is_running)))
  IN  IF r.error # Null THEN Null ELSE r.data

getRunningTimerForProject(projectId) ==
  LET r == storageCall("select", single(SelectSeq(entries,
                         LAMBDA e : e.project_id = projectId /\ e.is_running)))
  IN  IF r.error # Null THEN Null ELSE r.data

----------------------------------------------------------------------------
\* the demo rows the store is built with, three projects of two clients
\* (mockClients, mockProjects); rates are in cents
DemoClients ==
  [c \in {"K1", "K2"} |-> [hourly_rate |-> IF c = "K1" THEN 8500 ELSE 10000]]

DemoProjects ==
  [p \in {"P1", "P2", "P3"} |->
     [client_id |-> IF p = "P3" THEN "K2" ELSE "K1",
      hourly_rate_override |-> IF p = "P2" THEN Some(9500) ELSE Null]]

\* an empty table, the clock at 0, no call made yet, the store in order
InitWith(bounds) ==
  /\ entries = <<>>
  /\ nextId = 0
  /\ now = 0
  /\ result = TimerResult("none", FALSE, Null, Null)
  /\ faults = {}
  /\ calls = <<>>
  /\ limits = bounds
  /\ projects = DemoProjects
  /\ clients = DemoClients

Init == InitWith([entries |-> MaxEntries, tick |-> MaxClock, clock |-> MaxClock])

\* the clock advances
Tick ==
  /\ now + Step <= limits.tick
  /\ now' = now + Step
  /\ UNCHANGED <<entries, nextId, result>>

\* variant: a failure that carries no message
fail_silent(op, message) ==
  /\ result' = TimerResult(op, FALSE, Null, Null)
  /\ UNCHANGED <<entries, nextId, now>>

fail(op, message) ==
  /\ result' = TimerResult(op, FALSE, Null, Some(message))
  /\ UNCHANGED <<entries, nextId, now>>

\* variant: the new row takes the place of the last stored row
insertEntry_overwriting(op, newEntry) ==
  IF "insert" \in faults
  THEN fail(op, StorageErrorMessage)
  ELSE /\ nextId < limits.entries
       /\ LET row == [newEntry EXCEPT !.id = nextId + 1]
          IN  /\ entries' = IF entries = <<>> THEN <<row>>
                            ELSE [entries EXCEPT ![Len(entries)] = row]
              /\ result' = TimerResult(op, TRUE, Some(row), Null)
       /\ nextId' = nextId + 1
       /\ UNCHANGED now

\* insert(newEntry).select().single(): the store assigns the id
insertEntry(op, newEntry) ==
  IF "insert" \in faults
  THEN fail(op, StorageErrorMessage)
  ELSE /\ nextId < limits.entries
       /\ LET row == [newEntry EXCEPT !.id = nextId + 1]
          IN  /\ entries' = Append(entries, row)
              /\ result' = TimerResult(op, TRUE, Some(row), Null)
       /\ nextId' = nextId + 1
       /\ UNCHANGED now

\* variant: no look-up of a running timer before the insert
startTimer_unchecked(projectId, notes) ==
  insertEntry("startTimer",
    [id |-> 0, project_id |-> projectId, start_time |-> now,
     end_time |-> Null, duration_seconds |-> Null,
     notes |-> NotesOrNull(notes), is_manual |-> FALSE, is_running |-> TRUE])

startTimer(projectId, notes) ==
  IF getRunningTimerForProject(projectId) # Null
  THEN fail("startTimer", "A timer is already running for this project")
  ELSE insertEntry("startTimer",
         [id |-> 0, project_id |-> projectId, start_time |-> now,
          end_time |-> Null, duration_seconds |-> Null,
          notes |-> NotesOrNull(notes), is_manual |-> FALSE, is_running |-> TRUE])

\* variant: no test of is_running before the update
stopTimerAt_noRunningCheck(timeEntryId, skew) ==
  LET fetched == storageCall("select", single(byId(timeEntryId)))
  IN  IF fetched.error # Null \/ fetched.data = Null
      THEN fail("stopTimer", Val(fetched.error))
      ELSE LET currentEntry == Val(fetched.data)
               rows == storeUpdate(entries, timeEntryId,
                         [end_time |-> Some(now),
                          duration_seconds |->
                            Some(calculateElapsedSeconds(currentEntry.start_time, now + skew)),
                          is_running |-> FALSE])
               updated == storageCall("update",
                            single(SelectSeq(rows, LAMBDA e : e.id = timeEntryId)))
           IN  IF updated.error # Null
               THEN fail("stopTimer", Val(updated.error))
               ELSE /\ now + skew <= limits.clock
                    /\ now' = now + skew
                    /\ entries' = rows
                    /\ result' = TimerResult("stopTimer", TRUE, updated.data, Null)
                    /\ UNCHANGED nextId

\* stopTimer(timeEntryId).  The clock is read twice, first by `new Date()`
\* for end_time and then inside calculateElapsedSeconds; it may advance by
\* `skew` between the two reads.
stopTimerAt(timeEntryId, skew) ==
  LET fetched == storageCall("select", single(byId(timeEntryId)))
  IN  IF fetched.error # Null \/ fetched.data = Null
      THEN fail("stopTimer", Val(fetched.error))
      ELSE LET currentEntry == Val(fetched.data)
           IN  IF ~currentEntry.is_running
               THEN fail("stopTimer", "Timer is not running")
               ELSE LET endTime == now
                        durationSeconds ==
                          calculateElapsedSeconds(currentEntry.start_time, now + skew)
                        rows == storeUpdate(entries, timeEntryId,
                                  [end_time |-> Some(endTime),
                                   duration_seconds |-> Some(durationSeconds),
                                   is_running |-> FALSE])
                        updated == storageCall("update",
                                     single(SelectSeq(rows, LAMBDA e : e.id = timeEntryId)))
                   IN  IF updated.error # Null
                       THEN fail("stopTimer", Val(updated.error))
                       ELSE /\ now + skew <= limits.clock
                            /\ now' = now + skew
                            /\ entries' = rows
                            /\ result' = TimerResult("stopTimer", TRUE, updated.data, Null)
                            /\ UNCHANGED nextId

\* the clock advance between the two reads stays below one second
ClockSkews == {0, Step}

stopTimer(timeEntryId) == \E skew \in ClockSkews : stopTimerAt(timeEntryId, skew)

stopTimerForProject(projectId) ==
  LET runningTimer == getRunningTimerForProject(projectId)
  IN  IF runningTimer = Null
      THEN fail("stopTimerForProject", "No running timer found for this project")
      ELSE stopTimer(Val(runningTimer).id)

\* variant: pause stops the first stored running timer, of any project
pauseTimer_anyProject(projectId) ==
  LET r == storageCall("select", single(SelectSeq(entries, LAMBDA e : e.is_running)))
  IN  IF r.error # Null \/ r.data = Null
      THEN fail("stopTimerForProject", "No running timer found for this project")
      ELSE stopTimer(Val(r.data).id)

pauseTimer(projectId) == stopTimerForProject(projectId)

\* .order('start_time', { ascending: false }): Array.prototype.sort is stable
RECURSIVE orderByStartDesc(_)
orderByStartDesc(rows) ==
  IF rows = <<>> THEN <<>>
  ELSE LET init == orderByStartDesc(SubSeq(rows, 1, Len(rows) - 1))
           e == rows[Len(rows)]
           k == Cardinality({i \in 1..Len(init) : init[i].start_time >= e.start_time})
       IN  SubSeq(init, 1, k) \o <<e>> \o SubSeq(init, k + 1, Len(init))

\* .limit(count)
limit(rows, count) == SubSeq(rows, 1, IF Len(rows) < count THEN Len(rows) ELSE count)

\* variant: no order by start_time, the first stored row of the project
getLastEntryForProject_unordered(projectId) ==
  LET r == storageCall("select", single(limit(
                    SelectSeq(entries, LAMBDA e : e.project_id = projectId), 1)))
  IN  IF r.error # Null THEN Null ELSE r.data

getLastEntryForProject(projectId) ==
  LET r == storageCall("select", single(limit(orderByStartDesc(
                    SelectSeq(entries, LAMBDA e : e.project_id = projectId)), 1)))
  IN  IF r.error # Null THEN Null ELSE r.data

\* variant: the rows come in store order
getRunningTimers_unordered ==
  LET rows == SelectSeq(entries, LAMBDA e : e.is_running)
      r == storageCall("select", [data |-> rows, error |-> Null])
  IN  IF r.error # Null THEN <<>> ELSE r.data

\* the running rows, latest start first; none when the query fails
getRunningTimers ==
  LET rows == orderByStartDesc(SelectSeq(entries, LAMBDA e : e.is_running))
      r == storageCall("select", [data |-> rows, error |-> Null])
  IN  IF r.error # Null THEN <<>> ELSE r.data

\* the count the query reports, the number of rows that pass the filter;
\* 0 when the query fails
getRunningTimerCount ==
  LET rows == SelectSeq(entries, LAMBDA e : e.is_running)
      r == storageCall("select", [data |-> rows, error |-> Null, count |-> Len(rows)])
  IN  IF r.error # Null THEN 0 ELSE r.count

\* a call of getRunningTimers: what it returns; it writes nothing
ListRunning ==
  /\ result' = [op |-> "getRunningTimers", data |-> getRunningTimers]
  /\ UNCHANGED <<entries, nextId, now>>

\* a call of getRunningTimerCount
CountRunning ==
  /\ result' = [op |-> "getRunningTimerCount", count |-> getRunningTimerCount]
  /\ UNCHANGED <<entries, nextId, now>>

\* variant: the notes are copied whatever copyNotes says
resumeTimer_alwaysCopy(projectId, copyNotes) ==
  IF getRunningTimerForProject(projectId) # Null
  THEN fail("resumeTimer", "Timer is already running for this project")
  ELSE LET lastEntry == getLastEntryForProject(projectId)
           notes == IF lastEntry # Null
                       /\ Val(lastEntry).notes # Null /\ Val(lastEntry).notes # Some("")
                    THEN Val(lastEntry).notes
                    ELSE Null
       IN  startTimer(projectId, notes)

resumeTimer(projectId, copyNotes) ==
  IF getRunningTimerForProject(projectId) # Null
  THEN fail("resumeTimer", "Timer is already running for this project")
  ELSE LET lastEntry == getLastEntryForProject(projectId)
           notes == IF copyNotes /\ lastEntry # Null
                       /\ Val(lastEntry).notes # Null /\ Val(lastEntry).notes # Some("")
                    THEN Val(lastEntry).notes
                    ELSE Null
       IN  startTimer(projectId, notes)

\* variant: the row is inserted with is_manual = false
createManualEntry_notManual(projectId, startTime, endTime, notes) ==
  LET durationSeconds == FloorSeconds(endTime - startTime)
  IN  IF durationSeconds <= 0
      THEN fail("createManualEntry", "End time must be after start time")
      ELSE insertEntry("createManualEntry",
             [id |-> 0, project_id |-> projectId, start_time |-> startTime,
              end_time |-> Some(endTime), duration_seconds |-> Some(durationSeconds),
              notes |-> NotesOrNull(notes), is_manual |-> FALSE, is_running |-> FALSE])

createManualEntry(projectId, startTime, endTime, notes) ==
  LET start == startTime
      end == endTime
      durationSeconds == FloorSeconds(end - start)
  IN  IF durationSeconds <= 0
      THEN fail("createManualEntry", "End time must be after start time")
      ELSE insertEntry("createManualEntry",
             [id |-> 0, project_id |-> projectId, start_time |-> start,
              end_time |-> Some(end), duration_seconds |-> Some(durationSeconds),
              notes |-> NotesOrNull(notes), is_manual |-> TRUE, is_running |-> FALSE])

\* variant: the duration is computed only when both times are supplied
updatedDuration_bothOnly(updates, existing) ==
  IF updates.start_time # Null /\ updates.end_time # Null
  THEN Some(FloorSeconds(Val(updates.end_time) - Val(updates.start_time)))
  ELSE Null

\* the duration_seconds that updateTimeEntry adds to `updates`, Null if none;
\* `existing` is the fetched row and is read only when one time is supplied
updatedDuration(updates, existing) ==
  IF updates.start_time # Null /\ updates.end_time # Null
  THEN Some(FloorSeconds(Val(updates.end_time) - Val(updates.start_time)))
  ELSE IF updates.start_time # Null \/ updates.end_time # Null
  THEN LET start == IF updates.start_time # Null
                    THEN Val(updates.start_time) ELSE Val(existing).start_time
           end == IF updates.end_time # Null
                  THEN updates.end_time ELSE Val(existing).end_time
       IN  IF end # Null THEN Some(FloorSeconds(Val(end) - start)) ELSE Null
  ELSE Null

\* variant: an update that supplies an end_time also closes the row
updatePatch_closing(updates, duration) ==
  LET keys == {k \in {"start_time", "end_time", "notes"} : updates[k] # Null}
              \cup (IF duration # Null THEN {"duration_seconds"} ELSE {})
              \cup (IF updates.end_time # Null THEN {"is_running"} ELSE {})
  IN  [k \in keys |->
         IF k = "duration_seconds" THEN duration
         ELSE IF k = "start_time" THEN Val(updates.start_time)
         ELSE IF k = "end_time" THEN updates.end_time
         ELSE IF k = "is_running" THEN FALSE
         ELSE Val(updates.notes)]

\* the object handed to .update(): the supplied keys plus the computed duration
updatePatch(updates, duration) ==
  LET keys == {k \in {"start_time", "end_time", "notes"} : updates[k] # Null}
              \cup (IF duration # Null THEN {"duration_seconds"} ELSE {})
  IN  [k \in keys |->
         IF k = "duration_seconds" THEN duration
         ELSE IF k = "start_time" THEN Val(updates.start_time)
         ELSE IF k = "end_time" THEN updates.end_time
         ELSE Val(updates.notes)]

updateTimeEntry(timeEntryId, updates) ==
  LET both == updates.start_time # Null /\ updates.end_time # Null
      either == updates.start_time # Null \/ updates.end_time # Null
      fetched == storageCall("select", single(byId(timeEntryId)))
  IN  IF ~both /\ either /\ (fetched.error # Null \/ fetched.data = Null)
      THEN fail("updateTimeEntry", Val(fetched.error))
      ELSE LET patch == updatePatch(updates, updatedDuration(updates, fetched.data))
               rows == storeUpdate(entries, timeEntryId, patch)
               updated == storageCall("update",
                            single(SelectSeq(rows, LAMBDA e : e.id = timeEntryId)))
           IN  IF updated.error # Null
               THEN fail("updateTimeEntry", Val(updated.error))
               ELSE /\ entries' = rows
                    /\ result' = TimerResult("updateTimeEntry", TRUE, updated.data, Null)
                    /\ UNCHANGED <<nextId, now>>

\* variant: no test of is_running before the delete
deleteTimeEntry_noRunningCheck(timeEntryId) ==
  LET fetched == storageCall("select", single(byId(timeEntryId)))
  IN  IF fetched.error # Null \/ fetched.data = Null
      THEN fail("deleteTimeEntry", Val(fetched.error))
      ELSE /\ entries' = storeDelete(entries, timeEntryId)
           /\ result' = TimerResult("deleteTimeEntry", TRUE, Null, Null)
           /\ UNCHANGED <<nextId, now>>

deleteTimeEntry(timeEntryId) ==
  LET fetched == storageCall("select", single(byId(timeEntryId)))
  IN  IF fetched.error # Null \/ fetched.data = Null
      THEN fail("deleteTimeEntry", Val(fetched.error))
      ELSE IF Val(fetched.data).is_running
      THEN fail("deleteTimeEntry", "Cannot delete a running timer. Stop it first.")
      ELSE IF "delete" \in faults
      THEN fail("deleteTimeEntry", StorageErrorMessage)
      ELSE /\ entries' = storeDelete(entries, timeEntryId)
           /\ result' = TimerResult("deleteTimeEntry", TRUE, Null, Null)
           /\ UNCHANGED <<nextId, now>>

Next ==
  \/ Tick /\ UNCHANGED env
  \/ \E p \in Projects, n \in NotesInput : startTimer(p, n) /\ UNCHANGED env
  \/ \E id \in Ids : stopTimer(id) /\ UNCHANGED env
  \/ \E p \in Projects : stopTimerForProject(p) /\ UNCHANGED env
  \/ \E p \in Projects : pauseTimer(p) /\ UNCHANGED env
  \/ \E p \in Projects, c \in BOOLEAN : resumeTimer(p, c) /\ UNCHANGED env
  \/ \E p \in Projects, t0 \in Times, t1 \in Times, n \in OptNotes :
       createManualEntry(p, t0, t1, n) /\ UNCHANGED env
  \/ \E id \in Ids, u \in UpdateInputs : updateTimeEntry(id, u) /\ UNCHANGED env
  \/ \E id \in Ids : deleteTimeEntry(id) /\ UNCHANGED env

Spec == Init /\ [][Next]_vars

----------------------------------------------------------------------------
(* Notes carried over by resume: one project with up to three intervals.   *)
(* Timers are started without notes; a text enters the store through a     *)
(* manual entry or an edit, so a started interval is created with a text   *)
(* only when resume copies it.                                             *)

NotesMaxEntries == 3
NotesMaxClock == 500

NotesProjects == {"P1"}
NotesIds == 1..NotesMaxEntries
NotesStarts == {0, Step}
NotesTexts == {Null, Some("x")}
NotesUpdates == {u \in [start_time : {Null}, end_time : {Null},
                        notes : {Null} \cup {Some(n) : n \in NotesTexts}] :
                   u.notes # Null}

InitNotes ==
  InitWith([entries |-> NotesMaxEntries, tick |-> NotesMaxClock, clock |-> NotesMaxClock])

NextNotes ==
  \/ Tick /\ UNCHANGED env
  \/ \E p \in NotesProjects, n \in {Null, Some("")} : startTimer(p, n) /\ UNCHANGED env
  \/ \E id \in NotesIds : stopTimer(id) /\ UNCHANGED env
  \/ \E p \in NotesProjects : pauseTimer(p) /\ UNCHANGED env
  \/ \E p \in NotesProjects, c \in BOOLEAN : resumeTimer(p, c) /\ UNCHANGED env
  \/ \E p \in NotesProjects, t0 \in NotesStarts, n \in NotesTexts :
       createManualEntry(p, t0, t0 + MsPerSecond, n) /\ UNCHANGED env
  \/ \E id \in NotesIds, u \in NotesUpdates : updateTimeEntry(id, u) /\ UNCHANGED env

SpecNotes == InitNotes /\ [][NextNotes]_vars

----------------------------------------------------------------------------
(* The derived timer state of a project *)

MsPerHour == 3600000       \* 1000 * 60 * 60
PausedWindowHours == 24

\* variant: a closed last entry counts as paused however long ago it ended
getPausedTimerForProject_noWindow(projectId) ==
  IF getRunningTimerForProject(projectId) # Null
  THEN Null
  ELSE LET lastEntry == getLastEntryForProject(projectId)
       IN  IF lastEntry = Null \/ Val(lastEntry).end_time = Null
           THEN Null
           ELSE lastEntry

\* hoursSinceStopped <= 24, with hoursSinceStopped the real quotient
\* (now - endTime) / MsPerHour: the same as comparing the milliseconds
getPausedTimerForProject(projectId) ==
  IF getRunningTimerForProject(projectId) # Null
  THEN Null
  ELSE LET lastEntry == getLastEntryForProject(projectId)
       IN  IF lastEntry = Null \/ Val(lastEntry).end_time = Null
           THEN Null
           ELSE IF now - Val(Val(lastEntry).end_time) <= PausedWindowHours * MsPerHour
           THEN lastEntry
           ELSE Null

\* variant: no look at the running timer
getTimerStateForProject_noRunning(projectId) ==
  LET pausedTimer == getPausedTimerForProject(projectId)
  IN  IF pausedTimer # Null
      THEN [state |-> "paused", entry |-> pausedTimer]
      ELSE [state |-> "stopped", entry |-> Null]

getTimerStateForProject(projectId) ==
  LET runningTimer == getRunningTimerForProject(projectId)
      pausedTimer == getPausedTimerForProject(projectId)
  IN  IF runningTimer # Null
      THEN [state |-> "running", entry |-> runningTimer]
      ELSE IF pausedTimer # Null
      THEN [state |-> "paused", entry |-> pausedTimer]
      ELSE [state |-> "stopped", entry |-> Null]

\* variant: the state found is written to the notes of the entry returned
Classify_writing(projectId) ==
  /\ result' = [op |-> "getTimerStateForProject", project |-> projectId, at |-> now,
                state |-> getTimerStateForProject(projectId).state,
                entry |-> getTimerStateForProject(projectId).entry]
  /\ entries' = IF getTimerStateForProject(projectId).entry = Null
                THEN entries
                ELSE storeUpdate(entries, Val(getTimerStateForProject(projectId).entry).id,
                                 [notes |-> Some(getTimerStateForProject(projectId).state)])
  /\ UNCHANGED <<nextId, now>>

\* a call of getTimerStateForProject: what it returns, for which project and
\* at which clock reading; it writes nothing
Classify(projectId) ==
  /\ result' = [op |-> "getTimerStateForProject", project |-> projectId, at |-> now,
                state |-> getTimerStateForProject(projectId).state,
                entry |-> getTimerStateForProject(projectId).entry]
  /\ UNCHANGED <<entries, nextId, now>>

(* Timer states over a day and a half: the clock also advances by half     *)
(* days. *)

HalfDayMs == 43200000
ClassifyMaxClock == 129600000   \* 36 hours
ClassifyMaxEntries == 2

ClassifyIds == 1..ClassifyMaxEntries

Sleep ==
  /\ now + HalfDayMs <= limits.clock
  /\ now' = now + HalfDayMs
  /\ UNCHANGED <<entries, nextId, result>>

InitClassify ==
  InitWith([entries |-> ClassifyMaxEntries, tick |-> 0, clock |-> ClassifyMaxClock])

NextClassify ==
  \/ Sleep /\ UNCHANGED env
  \/ \E p \in Projects : startTimer(p, Null) /\ UNCHANGED env
  \/ \E id \in ClassifyIds : stopTimer(id) /\ UNCHANGED env
  \/ \E p \in Projects : pauseTimer(p) /\ UNCHANGED env
  \/ \E p \in Projects, t0 \in {0, Step} :
       createManualEntry(p, t0, t0 + MsPerSecond, Null) /\ UNCHANGED env
  \/ \E p \in Projects : Classify(p) /\ UNCHANGED env

SpecClassify == InitClassify /\ [][NextClassify]_vars

----------------------------------------------------------------------------
(* Storage errors: the calls of one kind (select, insert, update, delete)  *)
(* report an error while the fault lasts.                                  *)

FaultMaxEntries == 2
FaultMaxClock == 500

CallKinds == {"select", "insert", "update", "delete"}
FaultIds == 1..FaultMaxEntries
FaultUpdates == {u \in Updates : u.notes = Null /\ u.start_time = Null /\ u.end_time # Null}

\* the storage starts or stops failing
SetFaults(kinds) ==
  /\ faults # kinds
  /\ faults' = kinds
  /\ UNCHANGED <<entries, nextId, now, result, calls, limits, projects, clients>>

InitFault ==
  InitWith([entries |-> FaultMaxEntries, tick |-> 0, clock |-> FaultMaxClock])

NextFault ==
  \/ \E k \in CallKinds : SetFaults({k})
  \/ SetFaults({})
  \/ \E p \in Projects, n \in {Null} : startTimer(p, n) /\ UNCHANGED env
  \/ \E id \in FaultIds : stopTimer(id) /\ UNCHANGED env
  \/ \E p \in Projects : stopTimerForProject(p) /\ UNCHANGED env
  \/ \E p \in Projects : pauseTimer(p) /\ UNCHANGED env
  \/ \E p \in Projects, c \in BOOLEAN : resumeTimer(p, c) /\ UNCHANGED env
  \/ \E p \in Projects : createManualEntry(p, 0, MsPerSecond, Null) /\ UNCHANGED env
  \/ \E id \in FaultIds, u \in FaultUpdates : updateTimeEntry(id, u) /\ UNCHANGED env
  \/ \E id \in FaultIds : deleteTimeEntry(id) /\ UNCHANGED env

SpecFault == InitFault /\ [][NextFault]_vars

----------------------------------------------------------------------------
(* Concurrent callers: startTimer and resumeTimer are async functions, and  *)
(* another caller's code may run at each await.  A call in flight is at    *)
(* one of its awaits: "start:query" (the running-timer query of            *)
(* startTimer), "start:insert" (its insert), "resume:query" (the           *)
(* running-timer query of resumeTimer) or "resume:last" (its last-entry    *)
(* query).                                                                 *)

RaceMaxEntries == 3
RaceMaxClock == 500
RaceCallers == 2

Callers == 1..RaceCallers
RaceProjects == {"P1"}
RaceIds == 1..RaceMaxEntries

Idle == [pc |-> "idle", project |-> "", notes |-> Null, copyNotes |-> FALSE]

at(c, pc) == calls[c].pc = pc

\* a caller invokes startTimer(projectId, notes)
InvokeStart(c, projectId, notes) ==
  /\ at(c, "idle")
  /\ calls' = [calls EXCEPT ![c] = [pc |-> "start:query", project |-> projectId,
                                    notes |-> notes, copyNotes |-> FALSE]]
  /\ UNCHANGED <<entries, nextId, now, result, faults, limits, projects, clients>>

\* a caller invokes resumeTimer(projectId, copyNotes)
InvokeResume(c, projectId, copyNotes) ==
  /\ at(c, "idle")
  /\ calls' = [calls EXCEPT ![c] = [pc |-> "resume:query", project |-> projectId,
                                    notes |-> Null, copyNotes |-> copyNotes]]
  /\ UNCHANGED <<entries, nextId, now, result, faults, limits, projects, clients>>

\* startTimer up to its insert: the running-timer query and the test of it
StartQuery(c) ==
  /\ at(c, "start:query")
  /\ IF getRunningTimerForProject(calls[c].project) # Null
     THEN /\ fail("startTimer", "A timer is already running for this project")
          /\ calls' = [calls EXCEPT ![c] = Idle]
     ELSE /\ calls' = [calls EXCEPT ![c].pc = "start:insert"]
          /\ UNCHANGED <<entries, nextId, now, result>>
  /\ UNCHANGED <<faults, limits, projects, clients>>

\* variant: the insert is refused when the project has a running timer by now
StartInsert_revalidating(c) ==
  /\ at(c, "start:insert")
  /\ IF getRunningTimerForProject(calls[c].project) # Null
     THEN fail("startTimer", "A timer is already running for this project")
     ELSE insertEntry("startTimer",
            [id |-> 0, project_id |-> calls[c].project, start_time |-> now,
             end_time |-> Null, duration_seconds |-> Null,
             notes |-> NotesOrNull(calls[c].notes), is_manual |-> FALSE,
             is_running |-> TRUE])
  /\ calls' = [calls EXCEPT ![c] = Idle]
  /\ UNCHANGED <<faults, limits, projects, clients>>

\* startTimer from its insert on
StartInsert(c) ==
  /\ at(c, "start:insert")
  /\ insertEntry("startTimer",
       [id |-> 0, project_id |-> calls[c].project, start_time |-> now,
        end_time |-> Null, duration_seconds |-> Null,
        notes |-> NotesOrNull(calls[c].notes), is_manual |-> FALSE,
        is_running |-> TRUE])
  /\ calls' = [calls EXCEPT ![c] = Idle]
  /\ UNCHANGED <<faults, limits, projects, clients>>

\* resumeTimer up to its last-entry query, or up to the running-timer query
\* of startTimer when no notes are to be copied
ResumeQuery(c) ==
  /\ at(c, "resume:query")
  /\ IF getRunningTimerForProject(calls[c].project) # Null
     THEN /\ fail("resumeTimer", "Timer is already running for this project")
          /\ calls' = [calls EXCEPT ![c] = Idle]
     ELSE /\ calls' = [calls EXCEPT ![c].pc = IF calls[c].copyNotes
                                              THEN "resume:last"
                                              ELSE "start:query"]
          /\ UNCHANGED <<entries, nextId, now, result>>
  /\ UNCHANGED <<faults, limits, projects, clients>>

\* resumeTimer from its last-entry query to the call of startTimer
ResumeLast(c) ==
  /\ at(c, "resume:last")
  /\ LET lastEntry == getLastEntryForProject(calls[c].project)
         notes == IF lastEntry # Null
                     /\ Val(lastEntry).notes # Null /\ Val(lastEntry).notes # Some("")
                  THEN Val(lastEntry).notes
                  ELSE Null
     IN  calls' = [calls EXCEPT ![c].pc = "start:query", ![c].notes = notes]
  /\ UNCHANGED <<entries, nextId, now, result, faults, limits, projects, clients>>

InitRace ==
  /\ entries = <<>>
  /\ nextId = 0
  /\ now = 0
  /\ result = TimerResult("none", FALSE, Null, Null)
  /\ faults = {}
  /\ calls = [c \in Callers |-> Idle]
  /\ limits = [entries |-> RaceMaxEntries, tick |-> RaceMaxClock, clock |-> RaceMaxClock]
  /\ projects = DemoProjects
  /\ clients = DemoClients

NextRace ==
  \/ Tick /\ UNCHANGED env
  \/ \E c \in Callers, p \in RaceProjects : InvokeStart(c, p, Null)
  \/ \E c \in Callers, p \in RaceProjects, b \in BOOLEAN : InvokeResume(c, p, b)
  \/ \E c \in Callers : StartQuery(c)
  \/ \E c \in Callers : StartInsert(c)
  \/ \E c \in Callers : ResumeQuery(c)
  \/ \E c \in Callers : ResumeLast(c)
  \/ \E id \in RaceIds : stopTimer(id) /\ UNCHANGED env
  \/ \E p \in RaceProjects : createManualEntry(p, 0, MsPerSecond, Some("x")) /\ UNCHANGED env

SpecRace == InitRace /\ [][NextRace]_vars

----------------------------------------------------------------------------
(* The arithmetic of durations and costs.  A number that need not be whole  *)
(* (an hourly rate, a number of hours, a cost) is an exact fraction in      *)
(* lowest terms; a string is the sequence of its characters.               *)

SecondsPerHour == 3600
SecondsPerMinute == 60
PadLength == 2
CentsPerUnit == 100        \* hourly_rate is DECIMAL(10,2)

RECURSIVE GCD(_, _)
GCD(a, b) == IF b = 0 THEN a ELSE GCD(b, a % b)

\* the fraction n / d (n >= 0, d > 0) in lowest terms
Ratio(n, d) == [num |-> n \div GCD(n, d), den |-> d \div GCD(n, d)]

RatioTimes(x, y) == Ratio(x.num * y.num, x.den * y.den)

\* variant: whole hours only
calculateRunningCost_wholeHours(seconds, hourlyRate) ==
  LET hours == Ratio(seconds \div SecondsPerHour, 1)
  IN  RatioTimes(hours, hourlyRate)

calculateRunningCost(seconds, hourlyRate) ==
  LET hours == Ratio(seconds, SecondsPerHour)
  IN  RatioTimes(hours, hourlyRate)

DigitChars == <<"0", "1", "2", "3", "4", "5", "6", "7", "8", "9">>

\* Number.prototype.toString() of a non-negative integer
RECURSIVE toString(_)
toString(n) ==
  IF n < Len(DigitChars)
  THEN <<DigitChars[n + 1]>>
  ELSE Append(toString(n \div Len(DigitChars)), DigitChars[(n % Len(DigitChars)) + 1])

\* String.prototype.padStart with a one-character pad string
RECURSIVE padStart(_, _, _)
padStart(s, targetLength, padString) ==
  IF Len(s) >= targetLength THEN s
  ELSE padStart(padString \o s, targetLength, padString)

\* Array.prototype.join
RECURSIVE join(_, _)
join(parts, separator) ==
  IF parts = <<>> THEN <<>>
  ELSE IF Len(parts) = 1 THEN parts[1]
  ELSE parts[1] \o separator \o join(Tail(parts), separator)

\* variant: the hours are not padded
formatDuration_unpadded(seconds) ==
  LET hours == seconds \div SecondsPerHour
      minutes == (seconds % SecondsPerHour) \div SecondsPerMinute
      secs == seconds % SecondsPerMinute
  IN  join(<<toString(hours),
             padStart(toString(minutes), PadLength, <<"0">>),
             padStart(toString(secs), PadLength, <<"0">>)>>, <<":">>)

formatDuration(seconds) ==
  LET hours == seconds \div SecondsPerHour
      minutes == (seconds % SecondsPerHour) \div SecondsPerMinute
      secs == seconds % SecondsPerMinute
  IN  join(<<padStart(toString(hours), PadLength, <<"0">>),
             padStart(toString(minutes), PadLength, <<"0">>),
             padStart(toString(secs), PadLength, <<"0">>)>>, <<":">>)

(* The functions applied to chosen arguments: a call is drawn at the       *)
(* start and then made.                                                    *)

MaxRateCents == 10000
MaxCostSeconds == 36000
MaxFormatSeconds == 3600000

CostSeconds ==
  {s \in {0, 1, 59, 60, 900, 1800, 3599, 3600, 3661, 5400, 7200, MaxCostSeconds} :
     s <= MaxCostSeconds}
RateCents ==
  {c \in {0, 1, 1250, 3000, 4550, 5000, 6000, MaxRateCents} : c <= MaxRateCents}
FormatSeconds ==
  {s \in {0, 1, 9, 10, 45, 59, 60, 125, 599, 600, 3599, 3600, 3661, 35999, 36000,
          86399, 86400, 90061, 359999, 360000, MaxFormatSeconds} :
     s <= MaxFormatSeconds}

PureCalls ==
  {[fn |-> "calculateRunningCost", seconds |-> s, hourlyRate |-> Ratio(c, CentsPerUnit)] :
     s \in CostSeconds, c \in RateCents}
  \cup {[fn |-> "formatDuration", seconds |-> s, hourlyRate |-> Ratio(0, 1)] :
          s \in FormatSeconds}

InitPure ==
  /\ entries = <<>>
  /\ nextId = 0
  /\ now = 0
  /\ result = TimerResult("none", FALSE, Null, Null)
  /\ faults = {}
  /\ calls \in {<<c>> : c \in PureCalls}
  /\ limits = [entries |-> 0, tick |-> 0, clock |-> 0]
  /\ projects = DemoProjects
  /\ clients = DemoClients

ApplyCost ==
  /\ calls # <<>> /\ calls[1].fn = "calculateRunningCost"
  /\ result' = [op |-> "calculateRunningCost", seconds |-> calls[1].seconds,
                hourlyRate |-> calls[1].hourlyRate,
                value |-> calculateRunningCost(calls[1].seconds, calls[1].hourlyRate)]
  /\ calls' = <<>>
  /\ UNCHANGED <<entries, nextId, now, faults, limits, projects, clients>>

ApplyFormat ==
  /\ calls # <<>> /\ calls[1].fn = "formatDuration"
  /\ result' = [op |-> "formatDuration", seconds |-> calls[1].seconds,
                text |-> formatDuration(calls[1].seconds)]
  /\ calls' = <<>>
  /\ UNCHANGED <<entries, nextId, now, faults, limits, projects, clients>>

NextPure == ApplyCost \/ ApplyFormat

SpecPure == InitPure /\ [][NextPure]_vars

----------------------------------------------------------------------------
(* Timers of several projects at once, started with and without notes *)

StartMaxEntries == 3
StartMaxClock == 500

StartProjects == {"P1", "P2", "P3"}
StartIds == 1..StartMaxEntries
StartNotes == {Null, Some(""), Some("x")}

InitStart ==
  InitWith([entries |-> StartMaxEntries, tick |-> StartMaxClock, clock |-> StartMaxClock])

NextStart ==
  \/ Tick /\ UNCHANGED env
  \/ \E p \in StartProjects, n \in StartNotes : startTimer(p, n) /\ UNCHANGED env
  \/ \E id \in StartIds : stopTimer(id) /\ UNCHANGED env
  \/ ListRunning /\ UNCHANGED env
  \/ CountRunning /\ UNCHANGED env

SpecStart == InitStart /\ [][NextStart]_vars

----------------------------------------------------------------------------
(* Edits of the times of one project's intervals *)

EditProjects == {"P1"}
EditInputs == {u \in UpdateInputs : u.notes = Null /\ (u.start_time # Null \/ u.end_time # Null)}

NextEdit ==
  \/ Tick /\ UNCHANGED env
  \/ \E p \in EditProjects : startTimer(p, Null) /\ UNCHANGED env
  \/ \E id \in Ids : stopTimer(id) /\ UNCHANGED env
  \/ \E p \in EditProjects : stopTimerForProject(p) /\ UNCHANGED env
  \/ \E p \in EditProjects : pauseTimer(p) /\ UNCHANGED env
  \/ \E p \in EditProjects, c \in BOOLEAN : resumeTimer(p, c) /\ UNCHANGED env
  \/ \E p \in EditProjects, t0 \in Times, t1 \in Times :
       createManualEntry(p, t0, t1, Null) /\ UNCHANGED env
  \/ \E id \in Ids, u \in EditInputs : updateTimeEntry(id, u) /\ UNCHANGED env
  \/ \E id \in Ids : deleteTimeEntry(id) /\ UNCHANGED env

SpecEdit == Init /\ [][NextEdit]_vars

(***************************************************************************)
(* The effective rate: running timers joined with their project and        *)
(* client. The rows of projects and clients are drawn at the start; every  *)
(* project has its client (projects.client_id references clients).         *)
(***************************************************************************)
RateMaxEntries == 3
RateMaxClock == 500
RateProjects == {"P1", "P2"}
RateClients == {"K1"}
RateOverrides == {Null, Some(0), Some(9500)}
ClientRates == {0, 8500}

\* a variant that takes an override of 0 for a missing one
effectiveRate_truthy(project, client) ==
  IF project.hourly_rate_override # Null /\ Val(project.hourly_rate_override) # 0
  THEN Val(project.hourly_rate_override)
  ELSE client.hourly_rate

\* project.hourly_rate_override ?? client.hourly_rate
effectiveRate(project, client) ==
  IF project.hourly_rate_override # Null
  THEN Val(project.hourly_rate_override)
  ELSE client.hourly_rate

\* the store's join of time_entries with projects and clients: a row whose
\* project is missing is dropped
joinProjects(rows) ==
  LET kept == SelectSeq(rows, LAMBDA e : e.project_id \in DOMAIN projects)
  IN  [i \in DOMAIN kept |->
         [entry |-> kept[i],
          projects |-> projects[kept[i].project_id],
          clients |-> clients[projects[kept[i].project_id].client_id]]]

\* the running rows with project, client and effective rate, latest start
\* first; none when the query fails
getAllRunningTimersWithProjects ==
  LET rows == joinProjects(orderByStartDesc(SelectSeq(entries, LAMBDA e : e.is_running)))
      r == storageCall("select", [data |-> rows, error |-> Null])
  IN  IF r.error # Null THEN <<>>
      ELSE [i \in DOMAIN r.data |->
              [timeEntry |-> r.data[i].entry,
               project |-> r.data[i].projects,
               client |-> r.data[i].clients,
               effectiveRate |-> effectiveRate(r.data[i].projects, r.data[i].clients)]]

\* a call of getAllRunningTimersWithProjects: what it returns; it writes nothing
ListRunningWithProjects ==
  /\ result' = [op |-> "getAllRunningTimersWithProjects",
                data |-> getAllRunningTimersWithProjects]
  /\ UNCHANGED <<entries, nextId, now>>

\* the dashboard's loadData: every project with its client and effective rate
loadData ==
  /\ result' = [op |-> "loadData",
                projects |-> [p \in DOMAIN projects |->
                                [hourly_rate_override |-> projects[p].hourly_rate_override,
                                 client_hourly_rate |-> clients[projects[p].client_id].hourly_rate,
                                 effectiveRate |-> effectiveRate(projects[p],
                                                                 clients[projects[p].client_id])]]]
  /\ UNCHANGED <<entries, nextId, now>>

InitRate ==
  /\ entries = <<>>
  /\ nextId = 0
  /\ now = 0
  /\ result = TimerResult("none", FALSE, Null, Null)
  /\ faults = {}
  /\ calls = <<>>
  /\ limits = [entries |-> RateMaxEntries, tick |-> RateMaxClock, clock |-> RateMaxClock]
  /\ clients \in [RateClients -> [hourly_rate : ClientRates]]
  /\ projects \in [RateProjects -> [client_id : RateClients, hourly_rate_override : RateOverrides]]

NextRate ==
  \/ Tick /\ UNCHANGED env
  \/ \E p \in RateProjects : startTimer(p, Null) /\ UNCHANGED env
  \/ \E id \in 0..(RateMaxEntries - 1) : stopTimer(id) /\ UNCHANGED env
  \/ ListRunningWithProjects /\ UNCHANGED env
  \/ loadData /\ UNCHANGED env

SpecRate == InitRate /\ [][NextRate]_vars

(***************************************************************************)
(* stopTimer step by step: two callers (two clicks on Stop or Pause of the *)
(* active-timers list) whose awaits interleave. Each caller keeps the row  *)
(* it fetched and the result it was last handed.                           *)
(***************************************************************************)
StopRaceMaxEntries == 2
StopRaceMaxClock == 1000
StopRaceProjects == {"P1"}
StopRaceIds == 1..StopRaceMaxEntries

NothingReturned == TimerResult("none", FALSE, Null, Null)

StopIdle == [pc |-> "idle", project |-> "", id |-> 0, fetched |-> Null,
             returned |-> NothingReturned]

\* the caller is handed the result and is idle again
return(c) == calls' = [calls EXCEPT ![c] = [StopIdle EXCEPT !.returned = result']]

\* handleStop: a caller invokes stopTimer(timeEntryId)
InvokeStop(c, timeEntryId) ==
  /\ at(c, "idle")
  /\ calls' = [calls EXCEPT ![c].pc = "stop:fetch", ![c].id = timeEntryId]
  /\ UNCHANGED <<entries, nextId, now, result, faults, limits, projects, clients>>

\* handlePause: a caller invokes pauseTimer(projectId)
InvokePause(c, projectId) ==
  /\ at(c, "idle")
  /\ calls' = [calls EXCEPT ![c].pc = "pause:query", ![c].project = projectId]
  /\ UNCHANGED <<entries, nextId, now, result, faults, limits, projects, clients>>

\* stopTimerForProject up to its call of stopTimer
PauseQuery(c) ==
  /\ at(c, "pause:query")
  /\ LET runningTimer == getRunningTimerForProject(calls[c].project)
     IN  IF runningTimer = Null
         THEN /\ fail("stopTimerForProject", "No running timer found for this project")
              /\ return(c)
         ELSE /\ calls' = [calls EXCEPT ![c].pc = "stop:fetch",
                                        ![c].id = Val(runningTimer).id]
              /\ UNCHANGED <<entries, nextId, now, result>>
  /\ UNCHANGED <<faults, limits, projects, clients>>

\* stopTimer up to its update: the fetch of the row and the two tests of it
StopFetch(c) ==
  /\ at(c, "stop:fetch")
  /\ LET fetched == storageCall("select", single(byId(calls[c].id)))
     IN  IF fetched.error # Null \/ fetched.data = Null
         THEN fail("stopTimer", Val(fetched.error)) /\ return(c)
         ELSE IF ~Val(fetched.data).is_running
         THEN fail("stopTimer", "Timer is not running") /\ return(c)
         ELSE /\ calls' = [calls EXCEPT ![c].pc = "stop:update",
                                        ![c].fetched = fetched.data]
              /\ UNCHANGED <<entries, nextId, now, result>>
  /\ UNCHANGED <<faults, limits, projects, clients>>

\* variant: the update is refused when the row is no longer running
StopUpdate_revalidating(c) ==
  /\ at(c, "stop:update")
  /\ IF \E i \in DOMAIN entries : entries[i].id = calls[c].id /\ ~entries[i].is_running
     THEN fail("stopTimer", "Timer is not running")
     ELSE stopTimer(calls[c].id)
  /\ return(c)
  /\ UNCHANGED <<faults, limits, projects, clients>>

\* stopTimer from its update on: end_time and duration from the clock now and
\* the start_time that was fetched, written to the row with the id
StopUpdate(c) ==
  /\ at(c, "stop:update")
  /\ \E skew \in ClockSkews :
       LET currentEntry == Val(calls[c].fetched)
           endTime == now
           durationSeconds == calculateElapsedSeconds(currentEntry.start_time, now + skew)
           rows == storeUpdate(entries, calls[c].id,
                     [end_time |-> Some(endTime),
                      duration_seconds |-> Some(durationSeconds),
                      is_running |-> FALSE])
           updated == storageCall("update",
                        single(SelectSeq(rows, LAMBDA e : e.id = calls[c].id)))
       IN  IF updated.error # Null
           THEN fail("stopTimer", Val(updated.error))
           ELSE /\ now + skew <= limits.clock
                /\ now' = now + skew
                /\ entries' = rows
                /\ result' = TimerResult("stopTimer", TRUE, updated.data, Null)
                /\ UNCHANGED nextId
  /\ return(c)
  /\ UNCHANGED <<faults, limits, projects, clients>>

InitStopRace ==
  /\ entries = <<>>
  /\ nextId = 0
  /\ now = 0
  /\ result = NothingReturned
  /\ faults = {}
  /\ calls = [c \in Callers |-> StopIdle]
  /\ limits = [entries |-> StopRaceMaxEntries, tick |-> StopRaceMaxClock,
               clock |-> StopRaceMaxClock]
  /\ projects = DemoProjects
  /\ clients = DemoClients

NextStopRace ==
  \/ Tick /\ UNCHANGED env
  \/ \E p \in StopRaceProjects : startTimer(p, Null) /\ UNCHANGED env
  \/ \E c \in Callers, id \in StopRaceIds : InvokeStop(c, id)
  \/ \E c \in Callers, p \in StopRaceProjects : InvokePause(c, p)
  \/ \E c \in Callers : PauseQuery(c)
  \/ \E c \in Callers : StopFetch(c)
  \/ \E c \in Callers : StopUpdate(c)

SpecStopRace == InitStopRace /\ [][NextStopRace]_vars

(***************************************************************************)
(* After the start race: several running rows of one project, reached by   *)
(* interleaved startTimer calls, then start, resume, the classifier and    *)
(* pause run one at a time.                                                *)
(***************************************************************************)
RecoverMaxEntries == 4
RecoverMaxClock == 500
RecoverCallers == 3
RecoverProjects == {"P1"}

InitRecover ==
  /\ entries = <<>>
  /\ nextId = 0
  /\ now = 0
  /\ result = TimerResult("none", FALSE, Null, Null)
  /\ faults = {}
  /\ calls = [c \in 1..RecoverCallers |-> Idle]
  /\ limits = [entries |-> RecoverMaxEntries, tick |-> RecoverMaxClock,
               clock |-> RecoverMaxClock]
  /\ projects = DemoProjects
  /\ clients = DemoClients

NextRecover ==
  \/ Tick /\ UNCHANGED env
  \/ \E c \in 1..RecoverCallers, p \in RecoverProjects : InvokeStart(c, p, Null)
  \/ \E c \in 1..RecoverCallers : StartQuery(c)
  \/ \E c \in 1..RecoverCallers : StartInsert(c)
  \/ \E p \in RecoverProjects, b \in BOOLEAN : resumeTimer(p, b) /\ UNCHANGED env
  \/ \E p \in RecoverProjects : pauseTimer(p) /\ UNCHANGED env
  \/ \E p \in RecoverProjects : Classify(p) /\ UNCHANGED env

SpecRecover == InitRecover /\ [][NextRecover]_vars

----------------------------------------------------------------------------
(* Properties *)

RunningOf(rows, p) ==
  {i \in DOMAIN rows : rows[i].project_id = p /\ rows[i].is_running}

Failed(r) == ~r.success /\ r.timeEntry = Null /\ r.error # Null

\* C1: after any sequence of engine operations run one at a time, every
\* project has at most one stored interval with is_running = true.
AtMostOneRunningPerProject ==
  \A p \in Projects : Cardinality(RunningOf(entries, p)) <= 1

\* a project with a closed and a running interval, after a refused start
AtMostOneRunning_Witness ==
  /\ result.op = "startTimer" /\ ~result.success
  /\ \E p \in Projects :
       /\ Cardinality(RunningOf(entries, p)) = 1
       /\ \E i \in DOMAIN entries :
            entries[i].project_id = p /\ ~entries[i].is_running

\* C2: for every stored interval, is_running <=> end_time absent <=>
\* duration_seconds absent (updateInterval applies to running intervals too).
RunningIffOpen ==
  \A i \in DOMAIN entries :
    /\ entries[i].is_running <=> (entries[i].end_time = Null)
    /\ (entries[i].end_time = Null) <=> (entries[i].duration_seconds = Null)

\* C3: every stored interval with an end_time has
\* duration_seconds = floor((end_time - start_time) / 1000).
DurationIsFloorOfSpan ==
  \A i \in DOMAIN entries :
    entries[i].end_time # Null =>
      entries[i].duration_seconds =
        Some(FloorSeconds(Val(entries[i].end_time) - entries[i].start_time))

\* C4: every stored interval with an end_time has end_time > start_time.
EndAfterStart ==
  \A i \in DOMAIN entries :
    entries[i].end_time # Null => Val(entries[i].end_time) > entries[i].start_time

\* C5: start(P) while P has a running interval fails and inserts nothing; in
\* particular a start(P) right after a successful start(P) fails.
StartConflictFails ==
  [][\A p \in Projects, n \in NotesInput :
       ( /\ \/ getRunningTimerForProject(p) # Null
            \/ /\ result.op = "startTimer" /\ result.success
               /\ Val(result.timeEntry).project_id = p
         /\ startTimer(p, n) )
       => /\ Failed(result')
          /\ result'.error = Some("A timer is already running for this project")
          /\ entries' = entries /\ nextId' = nextId]_vars

StartConflict_Witness ==
  /\ result.op = "startTimer" /\ Failed(result)
  /\ \E p \in Projects : RunningOf(entries, p) # {}

\* C6: stop(id) fails when no interval has the id and when the interval is
\* not running, and then leaves every stored interval as it was.
StopFailsUnchanged ==
  [][\A id \in Ids :
       ( /\ \/ byId(id) = <<>>
            \/ ~byId(id)[1].is_running
         /\ stopTimer(id) )
       => /\ Failed(result')
          /\ result'.error = IF byId(id) = <<>> THEN Some(NoRowsFound)
                             ELSE Some("Timer is not running")
          /\ entries' = entries]_vars

\* a second stop on an interval that stop has closed
StopFails_Witness ==
  /\ result.op = "stopTimer" /\ Failed(result)
  /\ result.error = Some("Timer is not running")
  /\ \E i \in DOMAIN entries :
       ~entries[i].is_running /\ ~entries[i].is_manual /\ entries[i].end_time # Null

\* C7: a successful stop(id) invoked d whole seconds (d >= 0) after the
\* interval's start_time returns the row with is_running = false,
\* end_time = the time of the stop and duration_seconds = d.
StopYieldsWholeSeconds ==
  [][\A id \in Ids :
       ( /\ byId(id) # <<>>
         /\ byId(id)[1].is_running
         /\ now >= byId(id)[1].start_time
         /\ (now - byId(id)[1].start_time) % MsPerSecond = 0
         /\ stopTimer(id) )
       => /\ result'.success /\ result'.timeEntry # Null
          /\ LET r == Val(result'.timeEntry)
             IN  /\ r.id = id
                 /\ ~r.is_running
                 /\ r.end_time = Some(now)
                 /\ MsPerSecond * Val(r.duration_seconds) = now - byId(id)[1].start_time
                 /\ \E i \in DOMAIN entries' : entries'[i] = r]_vars

\* a stop one whole second after the start
StopWholeSeconds_Witness ==
  /\ result.op = "stopTimer" /\ result.success
  /\ LET r == Val(result.timeEntry)
     IN  /\ ~r.is_manual
         /\ Val(r.end_time) = r.start_time + MsPerSecond
         /\ r.duration_seconds = Some(1)

\* C8: deleteInterval(id) fails when the id is unknown, fails and keeps the
\* interval when it is running, and otherwise removes that interval only; no
\* engine operation removes a running interval.
DeleteOnlyClosed ==
  [][/\ \A id \in Ids :
          deleteTimeEntry(id) =>
            IF byId(id) = <<>>
            THEN Failed(result') /\ entries' = entries
            ELSE IF byId(id)[1].is_running
            THEN /\ Failed(result')
                 /\ result'.error = Some("Cannot delete a running timer. Stop it first.")
                 /\ entries' = entries
            ELSE /\ result'.success
                 /\ entries' = SelectSeq(entries, LAMBDA e : e.id # id)
                 /\ Len(entries') = Len(entries) - 1
     /\ \A i \in DOMAIN entries :
          entries[i].is_running =>
            \E j \in DOMAIN entries' : entries'[j].id = entries[i].id]_vars

DeleteRunning_Witness ==
  /\ result.op = "deleteTimeEntry" /\ Failed(result)
  /\ result.error = Some("Cannot delete a running timer. Stop it first.")
  /\ \E i \in DOMAIN entries : entries[i].is_running

\* C9: createManualEntry(p, t0, t1) fails and creates nothing exactly when
\* t1 <= t0; for every t1 > t0, less than a second apart included, it
\* succeeds and creates a closed interval.
ManualFailsIffEndNotAfterStart ==
  [][\A p \in Projects, t0 \in Times, t1 \in Times, n \in OptNotes :
       createManualEntry(p, t0, t1, n) =>
         IF t1 <= t0
         THEN Failed(result') /\ entries' = entries
         ELSE /\ result'.success
              /\ Len(entries') = Len(entries) + 1
              /\ ~entries'[Len(entries')].is_running]_vars

\* C10: a successful createManualEntry(p, t0, t1), read back, is
\* (p, t0, t1, floor(t1 - t0), manual, not running); it succeeds whether or
\* not p has a running interval; a manual interval is never running.
ManualRoundTrip ==
  [][/\ \A p \in Projects, t0 \in Times, t1 \in Times, n \in OptNotes :
          ( /\ t1 - t0 >= MsPerSecond
            /\ createManualEntry(p, t0, t1, n) )
          => /\ result'.success /\ result'.timeEntry # Null
             /\ LET r == Val(result'.timeEntry)
                    back == single(SelectSeq(entries', LAMBDA e : e.id = r.id))
                IN  /\ back.data = Some(r)
                    /\ r.project_id = p
                    /\ r.start_time = t0
                    /\ r.end_time = Some(t1)
                    /\ r.duration_seconds = Some(FloorSeconds(t1 - t0))
                    /\ r.is_manual
                    /\ ~r.is_running
                    /\ \A i \in DOMAIN entries : entries[i].id # r.id
     /\ \A i \in DOMAIN entries' :
          entries'[i].is_manual =>
            ~entries'[i].is_running /\ entries'[i].end_time # Null]_vars

\* a manual entry created for a project whose timer is running
ManualWhileRunning_Witness ==
  /\ result.op = "createManualEntry" /\ result.success
  /\ LET r == Val(result.timeEntry)
     IN  /\ r.is_manual
         /\ \E i \in DOMAIN entries :
              entries[i].project_id = r.project_id /\ entries[i].is_running

\* the closed timer intervals of p that ended last (manual entries are
\* created closed, they are never stopped)
LastStopped(p) ==
  {i \in DOMAIN entries :
     /\ entries[i].project_id = p /\ ~entries[i].is_manual /\ entries[i].end_time # Null
     /\ \A j \in DOMAIN entries :
          (entries[j].project_id = p /\ ~entries[j].is_manual /\ entries[j].end_time # Null)
            => Val(entries[j].end_time) <= Val(entries[i].end_time)}

\* the intervals of p with the latest start_time, the first of them in store
\* order
MostRecent(p) ==
  {i \in DOMAIN entries :
     /\ entries[i].project_id = p
     /\ \A j \in DOMAIN entries :
          entries[j].project_id = p =>
            \/ entries[j].start_time < entries[i].start_time
            \/ entries[j].start_time = entries[i].start_time /\ j >= i}

\* the last call returned a new running interval with these notes
CreatedRunningWith(r, rows, notes) ==
  /\ r.success /\ r.timeEntry # Null
  /\ Val(r.timeEntry).is_running
  /\ Val(r.timeEntry).notes = notes
  /\ Len(rows) > 0 /\ rows[Len(rows)] = Val(r.timeEntry)

JustStopped(p) ==
  /\ result.op = "stopTimer" /\ result.success
  /\ Val(result.timeEntry).project_id = p

StoppedFor(p) == now - Val(Val(result.timeEntry).end_time)

\* C12 as stated: a project with no intervals classifies as stopped; right
\* after a successful stop (or pause) of P's running interval P classifies as
\* paused, whatever other intervals P has; and with no further operations P
\* classifies as stopped once more than 24 hours have passed since that
\* end_time.
PausedAfterStopThenStopped ==
  [][\A p \in Projects :
       Classify(p) =>
         /\ (\A i \in DOMAIN entries : entries[i].project_id # p)
              => result'.state = "stopped"
         /\ (JustStopped(p) /\ StoppedFor(p) <= Step)
              => result'.state = "paused"
         /\ (JustStopped(p) /\ StoppedFor(p) > PausedWindowHours * MsPerHour)
              => result'.state = "stopped"]_vars

\* C12 amended: a project with no intervals classifies as stopped; right
\* after a successful stop (or pause) of P's running interval P classifies as
\* paused when the stopped interval is the one of P with the latest
\* start_time (the first stored of them); and then, with no further
\* operations, P classifies as stopped once more than 24 hours have passed
\* since that end_time.
PausedAfterStopOfMostRecent ==
  [][\A p \in Projects :
       Classify(p) =>
         /\ (\A i \in DOMAIN entries : entries[i].project_id # p)
              => result'.state = "stopped"
         /\ ( /\ JustStopped(p) /\ StoppedFor(p) <= Step
              /\ \A i \in MostRecent(p) : entries[i].id = Val(result.timeEntry).id )
              => result'.state = "paused" /\ result'.entry = result.timeEntry
         /\ ( /\ JustStopped(p) /\ StoppedFor(p) > PausedWindowHours * MsPerHour
              /\ \A i \in MostRecent(p) : entries[i].id = Val(result.timeEntry).id )
              => result'.state = "stopped" /\ result'.entry = Null]_vars

\* a project classified as stopped whose only interval is a timer that was
\* stopped more than 24 hours before
StoppedAfterWindow_Witness ==
  /\ result.op = "getTimerStateForProject" /\ result.state = "stopped"
  /\ \E i \in DOMAIN entries :
       /\ entries[i].project_id = result.project
       /\ MostRecent(result.project) = {i}
       /\ ~entries[i].is_manual /\ entries[i].end_time # Null
       /\ result.at - Val(entries[i].end_time) > PausedWindowHours * MsPerHour

\* C13 as stated: two calls of the classifier for a project with no engine
\* operation in between give the same classification, and the classifier
\* changes no stored interval.
ClassifyTwiceSame ==
  [][\A p \in Projects :
       Classify(p) =>
         /\ entries' = entries
         /\ (result.op = "getTimerStateForProject" /\ result.project = p)
              => result'.state = result.state]_vars

\* C13 amended: two calls of the classifier for a project with no engine
\* operation in between give the same classification and entry when the
\* clock reads the same at both; when time has passed the only change is
\* from paused to stopped; the classifier changes no stored interval.
ClassifyTwiceSameClock ==
  [][\A p \in Projects :
       Classify(p) =>
         /\ entries' = entries /\ nextId' = nextId
         /\ (result.op = "getTimerStateForProject" /\ result.project = p)
              => /\ result.at = now
                   => result'.state = result.state /\ result'.entry = result.entry
                 /\ \/ result'.state = result.state
                    \/ result.state = "paused" /\ result'.state = "stopped"]_vars

\* a project classified as paused a day or more into the run, its last
\* interval having ended before the call
ClassifiedPaused_Witness ==
  /\ result.op = "getTimerStateForProject" /\ result.state = "paused"
  /\ result.at >= PausedWindowHours * MsPerHour
  /\ Val(result.entry).end_time # Null
  /\ Val(Val(result.entry).end_time) < result.at

\* the step returns a failure carrying the storage error and writes nothing
SurfacedError ==
  /\ Failed(result') /\ result'.error = Some(StorageErrorMessage)
  /\ entries' = entries

\* C14: when a storage call made by a lifecycle operation reports an error
\* (the running-interval query of start, resume, stopForProject and pause
\* included), the operation returns a failure carrying the storage error's
\* message and writes nothing.
StorageErrorsSurface ==
  [][\A p \in Projects, id \in FaultIds :
       /\ ( /\ "select" \in faults
            /\ \/ startTimer(p, Null)
               \/ \E c \in BOOLEAN : resumeTimer(p, c)
               \/ stopTimerForProject(p)
               \/ pauseTimer(p)
               \/ stopTimer(id)
               \/ deleteTimeEntry(id) )
          => SurfacedError
       /\ ( /\ "insert" \in faults
            /\ RunningOf(entries, p) = {}
            /\ \/ startTimer(p, Null)
               \/ \E c \in BOOLEAN : resumeTimer(p, c)
               \/ createManualEntry(p, 0, MsPerSecond, Null) )
          => SurfacedError
       /\ ( /\ "update" \in faults
            /\ \E i \in DOMAIN entries : entries[i].id = id /\ entries[i].is_running
            /\ \/ stopTimer(id)
               \/ \E u \in FaultUpdates : updateTimeEntry(id, u) )
          => SurfacedError
       /\ ( /\ "delete" \in faults
            /\ \E i \in DOMAIN entries : entries[i].id = id /\ ~entries[i].is_running
            /\ deleteTimeEntry(id) )
          => SurfacedError]_vars

\* C15 as stated: every lifecycle operation returns a result carrying exactly
\* one of the resulting interval (on success) or an error message (on
\* failure).
ResultRecordXorError ==
  result.op # "none" =>
    IF result.success
    THEN result.timeEntry # Null /\ result.error = Null
    ELSE result.timeEntry = Null /\ result.error # Null

\* C15 amended: as stated for every result but that of a successful
\* deleteInterval, which carries neither an interval nor a message.
ResultRecordXorErrorButDelete ==
  result.op # "none" =>
    IF result.success
    THEN /\ result.error = Null
         /\ (result.timeEntry = Null) <=> (result.op = "deleteTimeEntry")
    ELSE result.timeEntry = Null /\ result.error # Null

\* a delete that succeeded, and returned no interval
DeleteSucceeded_Witness ==
  /\ result.op = "deleteTimeEntry" /\ result.success
  /\ result.timeEntry = Null
  /\ nextId > Len(entries)

\* C16: the at-most-one-running invariant does not survive concurrent
\* callers: a call of start (made directly or by resume) that found no
\* running interval of P inserts its row without looking again, so every
\* such insert adds a running interval of P, also when another call has
\* inserted one in between; two running intervals of P are reachable.
InsertAfterQueryUnchecked ==
  [][\A c \in Callers :
       StartInsert(c) =>
         /\ result'.success
         /\ Val(result'.timeEntry).is_running
         /\ Cardinality(RunningOf(entries', calls[c].project))
              = Cardinality(RunningOf(entries, calls[c].project)) + 1]_vars

\* both calls have returned and the project has two running intervals, one
\* of them with the text that only a resume can have copied
TwoRunning_Witness ==
  /\ \A c \in Callers : at(c, "idle")
  /\ \E p \in RaceProjects :
       /\ Cardinality(RunningOf(entries, p)) = 2
       /\ \E i \in RunningOf(entries, p), j \in RunningOf(entries, p) :
            entries[i].notes = Some("x") /\ entries[j].notes = Null

\* C17: cost(duration_seconds, hourly_rate) is exactly
\* (duration_seconds / 3600) * hourly_rate, nothing rounded, for every
\* non-negative whole duration and non-negative rate; cost(3600, 50) = 50,
\* cost(1800, 60) = 30, cost(0, 100) = 0 and cost(5400, 30) = 45.
CostIsExact ==
  /\ result.op = "calculateRunningCost" =>
       result.value = Ratio(result.seconds * result.hourlyRate.num,
                            SecondsPerHour * result.hourlyRate.den)
  /\ calculateRunningCost(3600, Ratio(50, 1)) = Ratio(50, 1)
  /\ calculateRunningCost(1800, Ratio(60, 1)) = Ratio(30, 1)
  /\ calculateRunningCost(0, Ratio(100, 1)) = Ratio(0, 1)
  /\ calculateRunningCost(5400, Ratio(30, 1)) = Ratio(45, 1)

\* a cost that is no whole number of cents: 3661 s at 45.50 an hour
FractionalCost_Witness ==
  /\ result.op = "calculateRunningCost"
  /\ result.seconds % SecondsPerHour # 0
  /\ (result.value.num * CentsPerUnit) % result.value.den # 0

\* the two characters of a number below 100
TwoDigits(n) == <<DigitChars[(n \div 10) + 1], DigitChars[(n % 10) + 1]>>

\* the number a sequence of digit characters denotes
RECURSIVE DecimalValue(_)
DecimalValue(s) ==
  IF s = <<>> THEN 0
  ELSE 10 * DecimalValue(SubSeq(s, 1, Len(s) - 1))
       + (CHOOSE d \in 0..9 : DigitChars[d + 1] = s[Len(s)])

\* C18: for every whole seconds >= 0, formatDuration(seconds) is H:MM:SS
\* with H = seconds div 3600 in at least two digits (no wrap at 24 hours),
\* MM = (seconds mod 3600) div 60 and SS = seconds mod 60 in exactly two
\* digits; 0 gives 00:00:00, 3661 gives 01:01:01, 36000 gives 10:00:00.
FormatIsPaddedHMS ==
  /\ result.op = "formatDuration" =>
       LET t == result.text
           n == Len(t)
           h == SubSeq(t, 1, n - 6)
       IN  /\ n >= 8
           /\ t[n - 5] = ":" /\ t[n - 2] = ":"
           /\ SubSeq(t, n - 4, n - 3)
                = TwoDigits((result.seconds % 3600) \div 60)
           /\ SubSeq(t, n - 1, n) = TwoDigits(result.seconds % 60)
           /\ \A i \in DOMAIN h : \E d \in DOMAIN DigitChars : h[i] = DigitChars[d]
           /\ DecimalValue(h) = result.seconds \div 3600
           /\ Len(h) > 2 => h[1] # "0"
  /\ formatDuration(0) = <<"0", "0", ":", "0", "0", ":", "0", "0">>
  /\ formatDuration(3661) = <<"0", "1", ":", "0", "1", ":", "0", "1">>
  /\ formatDuration(36000) = <<"1", "0", ":", "0", "0", ":", "0", "0">>

\* a duration of 100 hours or more, formatted with three digits of hours
LongDuration_Witness ==
  /\ result.op = "formatDuration"
  /\ result.seconds >= 360000
  /\ Len(result.text) > 8

\* the step appends one running, non-manual interval of p that starts now and
\* has these notes, returns it, and leaves the intervals stored before as
\* they were
StartedWith(p, notes) ==
  /\ result'.success /\ result'.timeEntry # Null /\ result'.error = Null
  /\ Len(entries') = Len(entries) + 1
  /\ SubSeq(entries', 1, Len(entries)) = entries
  /\ LET r == entries'[Len(entries')]
     IN  /\ result'.timeEntry = Some(r)
         /\ \A i \in DOMAIN entries : entries[i].id # r.id
         /\ r.project_id = p
         /\ r.start_time = now
         /\ r.end_time = Null
         /\ r.duration_seconds = Null
         /\ r.is_running
         /\ ~r.is_manual
         /\ r.notes = notes

\* C19 as stated: start(P, notes) succeeds whenever P has no running
\* interval, however many other projects have one; it inserts exactly one
\* interval (P, start_time = now, no end_time, no duration_seconds, running,
\* not manual, notes as given) and leaves every stored interval unchanged.
StartInsertsNotesAsGiven ==
  [][\A p \in StartProjects, n \in StartNotes :
       (RunningOf(entries, p) = {} /\ startTimer(p, n)) => StartedWith(p, n)]_vars

\* C19 amended: as stated, with notes as given when a non-empty text is
\* given and absent when none or the empty string is given.
StartInsertsNotesOrNone ==
  [][\A p \in StartProjects, n \in StartNotes :
       (RunningOf(entries, p) = {} /\ startTimer(p, n))
         => StartedWith(p, IF n = Some("") THEN Null ELSE n)]_vars

\* a timer started with a text while two other projects have timers running
StartBesideOthers_Witness ==
  /\ result.op = "startTimer" /\ result.success
  /\ Val(result.timeEntry).notes = Some("x")
  /\ \A p \in StartProjects : Cardinality(RunningOf(entries, p)) = 1
  /\ entries[Len(entries)] = Val(result.timeEntry)

\* C20: a successful stop(id) changes only end_time, duration_seconds and
\* is_running of the interval with that id (its project_id, start_time,
\* notes and is_manual stay) and no other stored interval; and an interval's
\* start_time changes only through an updateInterval that supplies
\* start_time.
StopChangesOnlyItsFields ==
  [][/\ \A id \in Ids :
          (result'.success /\ result'.op = "stopTimer" /\ stopTimer(id)) =>
            /\ Len(entries') = Len(entries)
            /\ \A i \in DOMAIN entries :
                 IF entries[i].id = id
                 THEN /\ entries'[i].id = id
                      /\ entries'[i].project_id = entries[i].project_id
                      /\ entries'[i].start_time = entries[i].start_time
                      /\ entries'[i].notes = entries[i].notes
                      /\ entries'[i].is_manual = entries[i].is_manual
                      /\ ~entries'[i].is_running /\ entries'[i].end_time # Null
                 ELSE entries'[i] = entries[i]
     /\ \A i \in DOMAIN entries, j \in DOMAIN entries' :
          ( /\ entries'[j].id = entries[i].id
            /\ entries'[j].start_time # entries[i].start_time )
          => \E u \in UpdateInputs :
               /\ u.start_time = Some(entries'[j].start_time)
               /\ updateTimeEntry(entries[i].id, u)]_vars

\* a timer stopped while the other project's timer, started later, runs on
StopBesideRunning_Witness ==
  /\ result.op = "stopTimer" /\ result.success
  /\ Len(entries) = 2
  /\ \E i \in DOMAIN entries, j \in DOMAIN entries :
       /\ entries[i].id = Val(result.timeEntry).id
       /\ entries[i].start_time < Val(entries[i].end_time)
       /\ entries[j].is_running
       /\ entries[j].start_time > entries[i].start_time

\* C21: pause(P) and stopForProject(P) are interchangeable: from the same
\* store and clock they return the same result and leave the same store.
\* When P has no running interval both fail (not found) and change nothing;
\* otherwise they close P's running interval as stop would (the first
\* stored one, should P have several) and leave every other interval, the
\* running intervals of other projects among them, as it was.
PauseIsStopForProject ==
  [][\A p \in Projects :
       /\ pauseTimer(p) <=> stopTimerForProject(p)
       /\ (faults = {} /\ pauseTimer(p)) =>
            IF RunningOf(entries, p) = {}
            THEN /\ Failed(result')
                 /\ result'.error = Some("No running timer found for this project")
                 /\ entries' = entries
            ELSE /\ result'.success /\ result'.error = Null
                 /\ Cardinality(RunningOf(entries', p))
                      = Cardinality(RunningOf(entries, p)) - 1
                 /\ Len(entries') = Len(entries)
                 /\ \A i \in DOMAIN entries :
                      IF i \in RunningOf(entries, p)
                         /\ \A j \in RunningOf(entries, p) : i <= j
                      THEN /\ \E skew \in ClockSkews : stopTimerAt(entries[i].id, skew)
                           /\ result'.timeEntry = Some(entries'[i])
                           /\ entries'[i].end_time = Some(now)
                      ELSE entries'[i] = entries[i]]_vars

\* a pause or stopForProject refused for a project whose timer was stopped
\* before, while the other project's timer runs
PauseNotFound_Witness ==
  /\ faults = {}
  /\ result.op = "stopTimerForProject" /\ Failed(result)
  /\ \E i \in DOMAIN entries, j \in DOMAIN entries :
       /\ ~entries[i].is_running /\ ~entries[i].is_manual
       /\ entries[j].is_running /\ entries[j].project_id # entries[i].project_id

\* C22: resume(P, copyNotes) fails with a conflict and creates nothing when P
\* has a running interval.  Otherwise it creates exactly one running interval
\* of P whose notes are those of the interval of P with the greatest
\* start_time (the first stored of them) if copyNotes is true and that
\* interval has non-empty notes, and absent in every other case.
ResumeConflictOrCopy ==
  [][\A p \in NotesProjects, c \in BOOLEAN :
       resumeTimer(p, c) =>
         IF RunningOf(entries, p) # {}
         THEN /\ Failed(result')
              /\ result'.error = Some("Timer is already running for this project")
              /\ entries' = entries
         ELSE /\ Len(entries') = Len(entries) + 1
              /\ SubSeq(entries', 1, Len(entries)) = entries
              /\ entries'[Len(entries')].project_id = p
              /\ Cardinality(RunningOf(entries', p)) = 1
              /\ CreatedRunningWith(result', entries',
                   IF c /\ \E i \in MostRecent(p) : entries[i].notes \notin {Null, Some("")}
                   THEN entries[CHOOSE i \in MostRecent(p) : TRUE].notes
                   ELSE Null)]_vars

\* a resume refused because the project's timer, which has a text for notes,
\* is running
ResumeConflict_Witness ==
  /\ result.op = "resumeTimer" /\ Failed(result)
  /\ \E i \in DOMAIN entries :
       entries[i].is_running /\ entries[i].notes = Some("x") /\ ~entries[i].is_manual

\* C23: the classifier returns exactly one of running, paused, stopped:
\* running iff the project has a running interval; otherwise paused iff its
\* interval with the greatest start_time has an end_time and
\* now - end_time <= 24 hours (exactly 24 hours is still paused); otherwise
\* stopped.  The entry returned is the running interval, the most recent
\* interval, or none.
ClassifierCases ==
  result.op = "getTimerStateForProject" =>
    LET p == result.project
        recent == {i \in MostRecent(p) :
                     /\ entries[i].end_time # Null
                     /\ result.at - Val(entries[i].end_time)
                          <= PausedWindowHours * MsPerHour}
    IN  /\ result.state \in {"running", "paused", "stopped"}
        /\ result.state = "running" <=> RunningOf(entries, p) # {}
        /\ result.state = "paused" <=> (RunningOf(entries, p) = {} /\ recent # {})
        /\ result.state = "running" =>
             \E i \in RunningOf(entries, p) : result.entry = Some(entries[i])
        /\ result.state = "paused" =>
             \E i \in recent : result.entry = Some(entries[i])
        /\ result.state = "stopped" => result.entry = Null

\* a project classified as paused exactly 24 hours after its timer stopped
PausedAtBoundary_Witness ==
  /\ result.op = "getTimerStateForProject" /\ result.state = "paused"
  /\ ~Val(result.entry).is_manual
  /\ result.at - Val(Val(result.entry).end_time) = PausedWindowHours * MsPerHour

\* C24: after a successful updateInterval(id, u) with u supplying start_time
\* and/or end_time, the stored duration_seconds is floor(E - S) in seconds,
\* S being u.start_time if supplied, else the stored start_time, and E
\* u.end_time if supplied, else the stored end_time, whenever E is present;
\* with E absent duration_seconds stays as it was.  When no interval has the
\* id the operation fails and stores nothing.
UpdateRecomputesDuration ==
  [][\A id \in Ids, u \in EditInputs :
       ( /\ result'.op = "updateTimeEntry"
         /\ result'.success =>
              /\ Val(result'.timeEntry).id = id
              /\ u.start_time \in {Null, Some(Val(result'.timeEntry).start_time)}
              /\ u.end_time \in {Null, Val(result'.timeEntry).end_time}
         /\ updateTimeEntry(id, u) )
       => IF byId(id) = <<>>
          THEN Failed(result') /\ entries' = entries
          ELSE /\ result'.success
               /\ Len(entries') = Len(entries)
               /\ \A i \in DOMAIN entries :
                    IF entries[i].id # id
                    THEN entries'[i] = entries[i]
                    ELSE LET S == IF u.start_time # Null
                                  THEN Val(u.start_time) ELSE entries[i].start_time
                             E == IF u.end_time # Null
                                  THEN u.end_time ELSE entries[i].end_time
                         IN  /\ result'.timeEntry = Some(entries'[i])
                             /\ entries'[i].start_time = S
                             /\ entries'[i].end_time = E
                             /\ entries'[i].duration_seconds =
                                  IF E # Null
                                  THEN Some((Val(E) - S) \div 1000)
                                  ELSE entries[i].duration_seconds]_vars

\* a stopped timer edited to span one second
EditedSpan_Witness ==
  /\ result.op = "updateTimeEntry" /\ result.success
  /\ LET r == Val(result.timeEntry)
     IN  /\ ~r.is_manual /\ ~r.is_running
         /\ r.end_time = Some(r.start_time + 1000)
         /\ r.duration_seconds = Some(1)
         /\ \E i \in DOMAIN entries : entries[i] = r

\* C25: storage in order, allRunningIntervals() returns exactly the stored
\* intervals with is_running = true of all projects, each once, by
\* start_time descending, and countRunning() is the length of that list in
\* the same store state.
RunningListAndCount ==
  LET running == {i \in DOMAIN entries : entries[i].is_running}
  IN  /\ result.op = "getRunningTimers" =>
           /\ Len(result.data) = Cardinality(running)
           /\ \A i \in running : \E k \in DOMAIN result.data : result.data[k] = entries[i]
           /\ \A k \in DOMAIN result.data, l \in DOMAIN result.data :
                k < l => /\ result.data[k].id # result.data[l].id
                         /\ result.data[k].start_time >= result.data[l].start_time
      /\ result.op = "getRunningTimerCount" =>
           /\ result.count = Cardinality(running)
           /\ result.count = Len(getRunningTimers)

\* three running timers listed, the one started last first
ListedLatestFirst_Witness ==
  /\ result.op = "getRunningTimers"
  /\ Len(result.data) = 3
  /\ result.data[1].start_time > result.data[3].start_time
  /\ result.data[1] = entries[3]

RowsOf(rows, p) == {i \in DOMAIN rows : rows[i].project_id = p}

\* C26: after a successful pause(P) P has no running interval, and a resume(P)
\* that follows (storage in order) succeeds and leaves P with exactly one
\* running interval, a new record with an id of its own; the paused interval
\* stays closed with its end_time and duration_seconds, and P's stored
\* intervals grow by exactly one over the pause/resume cycle.
PauseResumeCycle ==
  [][\A p \in NotesProjects :
       /\ (result'.success /\ result'.op = "stopTimer" /\ pauseTimer(p)) =>
            /\ RunningOf(entries', p) = {}
            /\ Cardinality(RowsOf(entries', p)) = Cardinality(RowsOf(entries, p))
       /\ \A c \in BOOLEAN :
            (JustStopped(p) /\ resumeTimer(p, c)) =>
              /\ result'.success
              /\ Cardinality(RunningOf(entries', p)) = 1
              /\ Cardinality(RowsOf(entries', p)) = Cardinality(RowsOf(entries, p)) + 1
              /\ \A i \in DOMAIN entries :
                   /\ entries'[i] = entries[i]
                   /\ entries[i].id # Val(result'.timeEntry).id
              /\ \E i \in DOMAIN entries :
                   /\ entries'[i] = Val(result.timeEntry)
                   /\ ~entries'[i].is_running
                   /\ entries'[i].end_time # Null /\ entries'[i].duration_seconds # Null
              /\ \A i \in RunningOf(entries', p) :
                   entries'[i] = Val(result'.timeEntry) /\ i = Len(entries')]_vars

\* two pause/resume cycles: three timer intervals of the project, the first
\* two closed, the last running and created with the text copied over
TwoCycles_Witness ==
  /\ result.op = "startTimer" /\ result.success
  /\ Len(entries) = 3
  /\ \A i \in DOMAIN entries : ~entries[i].is_manual /\ entries[i].project_id = "P1"
  /\ ~entries[1].is_running /\ ~entries[2].is_running /\ entries[3].is_running
  /\ entries[2].notes = Some("x") /\ Val(result.timeEntry).notes = Some("x")


\* C27: the effective rate of a project is its own hourly_rate_override when
\* one is present, an override of 0 included, and its client's hourly_rate
\* only when there is none; every running timer returned for the dashboard,
\* and every project the dashboard loads, carries that value as effectiveRate.
EffectiveRateIsOverrideElseClient ==
  /\ result.op = "getAllRunningTimersWithProjects" =>
       \A i \in DOMAIN result.data :
         LET t == result.data[i]
             p == projects[t.timeEntry.project_id]
         IN  /\ t.timeEntry.is_running
             /\ p.hourly_rate_override # Null =>
                  t.effectiveRate = Val(p.hourly_rate_override)
             /\ p.hourly_rate_override = Null =>
                  t.effectiveRate = clients[p.client_id].hourly_rate
  /\ result.op = "loadData" =>
       \A p \in DOMAIN result.projects :
         /\ projects[p].hourly_rate_override # Null =>
              result.projects[p].effectiveRate = Val(projects[p].hourly_rate_override)
         /\ projects[p].hourly_rate_override = Null =>
              result.projects[p].effectiveRate = clients[projects[p].client_id].hourly_rate

\* two running timers are returned, one of a project whose override is 0
\* under a client that charges, one of a project without override
ZeroOverrideListed_Witness ==
  /\ result.op = "getAllRunningTimersWithProjects"
  /\ Len(result.data) = 2
  /\ \E i \in DOMAIN result.data :
       /\ result.data[i].project.hourly_rate_override = Some(0)
       /\ result.data[i].client.hourly_rate > 0
       /\ result.data[i].effectiveRate = 0
  /\ \E i \in DOMAIN result.data :
       /\ result.data[i].project.hourly_rate_override = Null
       /\ result.data[i].effectiveRate = result.data[i].client.hourly_rate


\* C28: a closed interval is never made running again. Over every step and
\* every interval present before and after it: is_running goes only from
\* true to false, and only in a step that is a successful stopTimer of that
\* interval (stopTimerForProject and pauseTimer are such steps); is_manual
\* never changes; a step of updateTimeEntry changes neither.
ClosedStaysClosed ==
  [][\A i \in DOMAIN entries : \A j \in DOMAIN entries' :
       entries[i].id = entries'[j].id =>
         /\ entries'[j].is_manual = entries[i].is_manual
         /\ ~entries[i].is_running => ~entries'[j].is_running
         /\ entries'[j].is_running # entries[i].is_running =>
              /\ result'.op = "stopTimer"
              /\ result'.success
              /\ result'.timeEntry = Some(entries'[j])
              /\ stopTimer(entries[i].id)
         /\ result'.op = "updateTimeEntry" =>
              entries'[j].is_running = entries[i].is_running]_vars

\* a running interval was edited, start and end, and is still running
EditedWhileRunning_Witness ==
  /\ result.op = "updateTimeEntry"
  /\ result.success
  /\ result.timeEntry # Null
  /\ Val(result.timeEntry).is_running
  /\ Val(result.timeEntry).end_time # Null
  /\ \E i \in DOMAIN entries : entries[i] = Val(result.timeEntry)
  /\ \E i \in DOMAIN entries : ~entries[i].is_running /\ ~entries[i].is_manual


\* the result a caller was last handed is a successful stopTimer of interval id
StopSucceeded(c, id) ==
  /\ calls[c].returned.op = "stopTimer"
  /\ calls[c].returned.success
  /\ Val(calls[c].returned.timeEntry).id = id

\* C29 as claimed: of two stopTimer(id) invocations on the same interval at
\* most one returns success, and what the first wrote to end_time and
\* duration_seconds is not overwritten by the second.
StopTakesEffectOnce ==
  /\ \A id \in StopRaceIds : \A c, d \in Callers :
       StopSucceeded(c, id) /\ StopSucceeded(d, id) => c = d
  /\ \A c \in Callers, id \in StopRaceIds :
       StopSucceeded(c, id) =>
         \A i \in DOMAIN entries :
           entries[i].id = id => entries[i] = Val(calls[c].returned.timeEntry)

\* C29: a stopTimer(id) invocation succeeds whenever the row was running when
\* it fetched it. Its update writes end_time from the clock at the update and
\* duration_seconds from the start_time it fetched, closes the row and is
\* returned, whether or not another invocation closed the row in between (the
\* later update overwrites the earlier one); only an invocation that fetches
\* the row after it was closed fails with 'Timer is not running', writing
\* nothing.
StopWritesWhatItFetched ==
  [][\A c \in Callers :
       /\ (at(c, "stop:update") /\ calls'[c].pc = "idle") =>
            /\ result'.op = "stopTimer"
            /\ result'.success
            /\ calls'[c].returned = result'
            /\ \E i \in DOMAIN entries :
                 /\ entries[i].id = calls[c].id
                 /\ entries'[i] = Val(result'.timeEntry)
                 /\ entries'[i].end_time = Some(now)
                 /\ entries'[i].duration_seconds =
                      Some(FloorSeconds(now' - Val(calls[c].fetched).start_time))
                 /\ ~entries'[i].is_running
                 /\ \A j \in DOMAIN entries : j # i => entries'[j] = entries[j]
       /\ (at(c, "stop:fetch") /\ calls'[c].pc = "idle") =>
            /\ entries' = entries
            /\ ~result'.success
            /\ \A i \in DOMAIN entries :
                 entries[i].id = calls[c].id =>
                   ~entries[i].is_running /\ result'.error = Some("Timer is not running")
       /\ (at(c, "stop:fetch") /\ calls'[c].pc = "stop:update") =>
            \E i \in DOMAIN entries :
              entries[i].id = calls[c].id /\ entries[i].is_running
                /\ calls'[c].fetched = Some(entries[i])]_vars

\* both callers were handed success for the same interval, and the row holds
\* the later end_time, not the one the first caller was handed
StoppedTwice_Witness ==
  \E id \in StopRaceIds :
    /\ StopSucceeded(1, id)
    /\ StopSucceeded(2, id)
    /\ Val(calls[1].returned.timeEntry).end_time # Val(calls[2].returned.timeEntry).end_time
    /\ \E i \in DOMAIN entries :
         entries[i].id = id /\ entries[i] # Val(calls[1].returned.timeEntry)


====
